---------------------------- MODULE Spec2Model ----------------------------
(***************************************************************************)
(* Model of static_container_registry.py: find_images, compute_digest and  *)
(* create_config.                                                          *)
(*                                                                         *)
(* Strings that the program sorts or concatenates (names, tags, digests,   *)
(* location paths) are sequences of character codes, so that Python's      *)
(* lexicographic order and str.format are computed, not assumed.  A Python *)
(* dict is a sequence of <<key, value>> pairs in insertion order.          *)
(***************************************************************************)
EXTENDS Integers, Sequences, FiniteSets, TLC

(***************************************************************************)
(* Bounds of the model.                                                    *)
(***************************************************************************)
\* Largest number of entries below the image directories of a tree.
MaxEntries == 3
\* Largest number of changes made to the tree while create_config runs.
MaxFsEvents == 1

(***************************************************************************)
(* Strings.                                                                *)
(***************************************************************************)
SLASH == 47

\* "/v2/"
V2_ROOT == <<47, 118, 50, 47>>
\* "/v2"
V2_BARE == <<47, 118, 50>>
\* "/tags/list"
TAGS_LIST == <<47, 116, 97, 103, 115, 47, 108, 105, 115, 116>>
\* "/manifests/"
MANIFESTS == <<47, 109, 97, 110, 105, 102, 101, 115, 116, 115, 47>>
\* "sha256:"
SHA256_PREFIX == <<115, 104, 97, 50, 53, 54, 58>>
\* "/blobs/sha256:"
BLOBS == <<47, 98, 108, 111, 98, 115, 47>> \o SHA256_PREFIX

DOCKER_V2 == "application/vnd.docker.distribution.manifest.v2+json"
OCI_V1 == "application/vnd.oci.image.manifest.v1+json"
MEDIA_TYPES == {DOCKER_V2, OCI_V1}

\* Python's < on str: lexicographic by code point.
RECURSIVE StrLess(_, _)
StrLess(s, t) ==
    IF t = <<>> THEN FALSE
    ELSE IF s = <<>> THEN TRUE
    ELSE IF Head(s) # Head(t) THEN Head(s) < Head(t)
    ELSE StrLess(Tail(s), Tail(t))

\* str.lstrip('/')
RECURSIVE LStrip(_)
LStrip(s) ==
    IF s # <<>> /\ Head(s) = SLASH THEN LStrip(Tail(s)) ELSE s

(***************************************************************************)
(* The file system under the scan root.                                    *)
(***************************************************************************)
\* Contents a manifest.json can have, by what json.load makes of them.
ManifestBytes ==
    {"notutf8", "notjson", "emptyobj", "array", "schema1", "badmedia",
     "docker", "oci"}

\* Reading the text file opened with encoding='utf-8' succeeds.
DecodesAsUtf8(bytes) == bytes # "notutf8"

\* json.load(file) of bytes that decode, with data = None after a
\* JSONDecodeError.
JsonLoad(bytes) ==
    CASE bytes \in {"notjson", "notutf8"} -> [type |-> "none", size |-> 0,
                                schemaVersion |-> 0, mediaType |-> "null"]
      [] bytes = "emptyobj" -> [type |-> "dict", size |-> 0,
                                schemaVersion |-> 0, mediaType |-> "null"]
      [] bytes = "array"    -> [type |-> "list", size |-> 1,
                                schemaVersion |-> 0, mediaType |-> "null"]
      [] bytes = "schema1"  -> [type |-> "dict", size |-> 2,
                                schemaVersion |-> 1, mediaType |-> DOCKER_V2]
      [] bytes = "badmedia" -> [type |-> "dict", size |-> 2,
                                schemaVersion |-> 2,
                                mediaType |-> "application/vnd.docker.distribution.manifest.list.v2+json"]
      [] bytes = "docker"   -> [type |-> "dict", size |-> 2,
                                schemaVersion |-> 2, mediaType |-> DOCKER_V2]
      [] bytes = "oci"      -> [type |-> "dict", size |-> 2,
                                schemaVersion |-> 2, mediaType |-> OCI_V1]

\* hashlib.sha256 of the bytes, as hex text (shortened to two characters);
\* different bytes have different digests.
Sha256Hex(bytes) ==
    CASE bytes = "notutf8"  -> <<48, 53>>
      [] bytes = "notjson"  -> <<48, 48>>
      [] bytes = "emptyobj" -> <<48, 49>>
      [] bytes = "array"    -> <<48, 50>>
      [] bytes = "schema1"  -> <<48, 51>>
      [] bytes = "badmedia" -> <<48, 52>>
      [] bytes = "docker"   -> <<97, 49>>
      [] bytes = "oci"      -> <<98, 50>>

\* Image directory names: "app", "lib".
APP == <<97, 112, 112>>
LIB == <<108, 105, 98>>
Names == {APP, LIB}

\* Tag directory names: "v1", "v2" and "sha256:a1", the digest reference of
\* the docker manifest.
TAG_V1 == <<118, 49>>
TAG_V2 == <<118, 50>>
TAG_SHA == SHA256_PREFIX \o Sha256Hex("docker")
Tags == {TAG_V1, TAG_V2, TAG_SHA}

\* The paths root/name/tag a tree may hold.
Slots == {<<APP, TAG_V1>>, <<APP, TAG_V2>>, <<APP, TAG_SHA>>, <<LIB, TAG_V1>>}

\* What is at root/name/tag: nothing, a regular file, or a directory whose
\* manifest.json is missing ("none") or has the given bytes.
NoEntry == [kind |-> "absent", manifest |-> "none"]
FileEntry == [kind |-> "file", manifest |-> "none"]
DirEntry(m) == [kind |-> "dir", manifest |-> m]
Entries(contents) ==
    {NoEntry, FileEntry, DirEntry("none")} \cup {DirEntry(m) : m \in contents}

\* A tree: what each root/name is, and what each root/name/tag is.
Trees(contents) ==
    {t \in [top : [Names -> {"absent", "file", "dir"}],
            sub : [Slots -> Entries(contents)]] :
        /\ \A s \in Slots : t.sub[s].kind # "absent" => t.top[s[1]] = "dir"
        /\ Cardinality({s \in Slots : t.sub[s].kind # "absent"}) <= MaxEntries}


(***************************************************************************)
(* Python dicts and sorted().                                              *)
(***************************************************************************)
HasKey(d, k) == \E i \in 1..Len(d) : d[i][1] = k

Get(d, k) == d[CHOOSE i \in 1..Len(d) : d[i][1] = k][2]

\* d[k] = v: an existing key keeps its place, a new key goes last.
SetItem(d, k, v) ==
    IF HasKey(d, k)
    THEN [i \in 1..Len(d) |-> IF d[i][1] = k THEN <<k, v>> ELSE d[i]]
    ELSE Append(d, <<k, v>>)

\* images.setdefault(name, {})[tag] = media_type
Aggregate(d, n, t, media) ==
    SetItem(d, n, SetItem(IF HasKey(d, n) THEN Get(d, n) ELSE <<>>, t, media))

\* d.keys(), in insertion order
Keys(d) == [i \in 1..Len(d) |-> d[i][1]]

\* One step of sorted(): x put before the first item of the sorted list s
\* whose key is greater.
RECURSIVE Insert(_, _)
Insert(x, s) ==
    IF s = <<>> THEN <<x>>
    ELSE IF StrLess(x[1], Head(s)[1]) THEN <<x>> \o s
    ELSE <<Head(s)>> \o Insert(x, Tail(s))

RECURSIVE InsertionSort(_)
InsertionSort(d) ==
    IF d = <<>> THEN <<>>
    ELSE Insert(d[Len(d)], InsertionSort(SubSeq(d, 1, Len(d) - 1)))

\* Mutants of SortedItems: the items as inserted; the items in decreasing
\* order.
SortedItemsUnsorted(d) == d

SortedItemsDescending(d) ==
    LET s == InsertionSort(d) IN [i \in 1..Len(s) |-> s[Len(s) + 1 - i]]

\* sorted(d.items()): the keys of a dict differ, so the values are never
\* compared.
SortedItems(d) == InsertionSort(d)

\* sorted(d.keys())
SortedKeys(d) == Keys(InsertionSort(d))

\* Mutant of TagListTags: tags.keys() without sorted().
TagListTagsUnsorted(tags) == Keys(tags)

\* 'tags': sorted(tags.keys()) of the tag list payload
TagListTags(tags) == SortedKeys(tags)

\* Mutant of BlobProbeTags: tags.keys() without sorted().
BlobProbeTagsUnsorted(tags) == Keys(tags)

\* sorted(tags.keys()) of the try_files paths of the blob route
BlobProbeTags(tags) == SortedKeys(tags)

(***************************************************************************)
(* The configuration fragments create_config yields.                       *)
(***************************************************************************)
Fragment(kind, path, name, tag, media, digest, tags) ==
    [kind |-> kind, path |-> path, name |-> name, tag |-> tag,
     media |-> media, digest |-> digest, tags |-> tags]

\* The module-level CONSTANTS text: location = /v2, location = /v2/ and
\* location @404_tag.
CONSTANTS_FRAGMENT ==
    Fragment("constants", <<>>, <<>>, <<>>, "", <<>>, <<>>)

\* "/v2/{name_prefix}{name}"
ImagePath(name_prefix, name) == V2_ROOT \o LStrip(name_prefix) \o name

\* location = /v2/{name_prefix}{name}/tags/list, returning name and tags.
TagListFragment(name_prefix, name, tags) ==
    Fragment("tag_list", ImagePath(name_prefix, name) \o TAGS_LIST,
             name, <<>>, "application/json", <<>>, tags)

\* location = "/v2/{name_prefix}{name}/manifests/{tag}": alias
\* {server_root}/{name}/{tag}/, default_type and Docker-Content-Digest.
ManifestByTagFragment(name_prefix, name, tag, media, digest) ==
    Fragment("manifest_by_tag",
             ImagePath(name_prefix, name) \o MANIFESTS \o tag,
             name, tag, media, digest, <<>>)

\* location = "/v2/{name_prefix}{name}/manifests/sha256:{digest}"
ManifestByDigestFragment(name_prefix, name, tag, media, digest) ==
    Fragment("manifest_by_digest",
             ImagePath(name_prefix, name) \o MANIFESTS \o SHA256_PREFIX \o digest,
             name, tag, media, digest, <<>>)

\* # Digest for "{name}:{tag}" already served
AlreadyServedFragment(name, tag) ==
    Fragment("comment", <<>>, name, tag, "", <<>>, <<>>)

\* location ~ "/v2/{name_prefix}{name}/blobs/sha256:([a-f0-9]{64})":
\* try_files {tag}/$1 for every tag of tags, then =404.
BlobsFragment(name_prefix, name, tags) ==
    Fragment("blobs", ImagePath(name_prefix, name) \o BLOBS,
             name, <<>>, "", <<>>, tags)

(***************************************************************************)
(* State.                                                                  *)
(***************************************************************************)
VARIABLES
    fs,              \* the tree under root
    with_constants,  \* arguments of create_config
    only_constants,
    name_prefix,
    pc,              \* where create_config is
    out,             \* the fragments yielded so far
    error,           \* the exception that ended the run, "" if none
    listed,          \* whether os.listdir(root) was called
    names_todo,      \* entries of os.listdir(root) not yet visited
    name,            \* find_images: the image directory being listed
    tags_todo,       \* entries of os.listdir(root/name) not yet visited
    yielded,         \* the triples find_images has yielded
    images,          \* create_config: name -> (tag -> media_type)
    pending,         \* the items of sorted(images.items()) not yet finished
    tag_items,       \* the items of sorted(tags.items()) not yet finished
    seen_digests,
    hexdigest,
    digest_read,     \* the bytes compute_digest read, per root/name/tag
    fs_events        \* number of changes made to the tree so far

vars == <<fs, with_constants, only_constants, name_prefix, pc, out, error,
          listed, names_todo, name, tags_todo, yielded, images, pending,
          tag_items, seen_digests, hexdigest, digest_read, fs_events>>

args == <<with_constants, only_constants, name_prefix>>
scan == <<listed, names_todo, name, tags_todo, yielded, images>>
emit == <<pending, tag_items, seen_digests, hexdigest, digest_read>>

\* The name prefixes main passes: "/" (no --name-prefix) and "foo/".
NO_PREFIX == <<47>>
FOO_PREFIX == <<102, 111, 111, 47>>
NamePrefixes == {NO_PREFIX, FOO_PREFIX}

InitWith(trees, prefixes) ==
    /\ fs \in trees
    /\ with_constants \in BOOLEAN
    /\ only_constants \in BOOLEAN
    /\ name_prefix \in prefixes
    /\ pc = "start"
    /\ out = <<>>
    /\ error = ""
    /\ listed = FALSE
    /\ names_todo = {}
    /\ name = <<>>
    /\ tags_todo = {}
    /\ yielded = <<>>
    /\ images = <<>>
    /\ pending = <<>>
    /\ tag_items = <<>>
    /\ seen_digests = {}
    /\ hexdigest = <<>>
    /\ digest_read = [s \in Slots |-> "none"]
    /\ fs_events = 0

Init == InitWith(Trees(ManifestBytes), NamePrefixes)

(***************************************************************************)
(* find_images                                                             *)
(***************************************************************************)
\* os.listdir(root)
ListRoot(tree) == {n \in Names : tree.top[n] # "absent"}

\* os.listdir(os.path.join(root, name))
ListImage(tree, n) == {t \in Tags : <<n, t>> \in Slots /\ tree.sub[<<n, t>>].kind # "absent"}

\* os.path.isdir(os.path.join(root, name))
IsImageDir(tree, n) == tree.top[n] = "dir"

\* os.path.isdir(os.path.join(root, name, tag))
IsTagDir(tree, n, t) == tree.sub[<<n, t>>].kind = "dir"

\* os.path.isfile(manifest)
HasManifest(tree, n, t) == IsTagDir(tree, n, t) /\ tree.sub[<<n, t>>].manifest # "none"

\* `not data`: None and the empty containers are falsy.
Falsy(data) == data.type = "none" \/ data.size = 0

\* data.get(...) exists on a dict only.
GetRaises(data) == data.type # "dict"

\* What the body of the tag loop does with root/name/tag: "skip" (continue),
\* "yield", or an exception nothing catches: the UnicodeDecodeError of
\* json.load, which is no JSONDecodeError, or the AttributeError of data.get.
Examine(tree, n, t) ==
    IF ~IsTagDir(tree, n, t) THEN "skip"
    ELSE IF ~HasManifest(tree, n, t) THEN "skip"
    ELSE IF ~DecodesAsUtf8(tree.sub[<<n, t>>].manifest) THEN "UnicodeDecodeError"
    ELSE LET data == JsonLoad(tree.sub[<<n, t>>].manifest) IN
         IF Falsy(data) THEN "skip"
         ELSE IF GetRaises(data) THEN "AttributeError"
         ELSE IF data.schemaVersion # 2 THEN "skip"
         ELSE IF data.mediaType \notin MEDIA_TYPES THEN "skip"
         ELSE "yield"

\* media_type = data.get('mediaType')
MediaTypeOf(tree, n, t) == JsonLoad(tree.sub[<<n, t>>].manifest).mediaType

\* Mutant of ConstantsPart: the constants whatever the flag.
ConstantsPartAlways(wc) == <<CONSTANTS_FRAGMENT>>

\* if with_constants: yield CONSTANTS
ConstantsPart(wc) == IF wc THEN <<CONSTANTS_FRAGMENT>> ELSE <<>>

\* create_config up to the start of find_images: the constants, the return
\* under only_constants, and os.listdir(root).
CreateConfigStart ==
    /\ pc = "start"
    /\ out' = out \o ConstantsPart(with_constants)
    /\ IF only_constants
       THEN /\ pc' = "done"
            /\ UNCHANGED <<listed, names_todo>>
       ELSE /\ pc' = "names"
            /\ listed' = TRUE
            /\ names_todo' = ListRoot(fs)
    /\ UNCHANGED <<fs, args, error, name, tags_todo, yielded, images, emit,
                   fs_events>>

\* The next name of os.listdir(root), in whatever order the system lists
\* them: a name that is no directory is passed over, a directory is listed.
FindImagesName ==
    /\ pc = "names"
    /\ \E n \in names_todo :
        /\ names_todo' = names_todo \ {n}
        /\ IF IsImageDir(fs, n) /\ ListImage(fs, n) # {}
           THEN /\ pc' = "tags"
                /\ name' = n
                /\ tags_todo' = ListImage(fs, n)
           ELSE UNCHANGED <<pc, name, tags_todo>>
    /\ UNCHANGED <<fs, args, out, error, listed, yielded, images, emit,
                   fs_events>>

\* The next tag of os.listdir(root/name): skipped, or ending the run with
\* an exception, or yielded to create_config, which files it under images.
FindImagesTag ==
    /\ pc = "tags"
    /\ \E t \in tags_todo :
        LET what == Examine(fs, name, t) IN
        /\ tags_todo' = tags_todo \ {t}
        /\ IF what \notin {"skip", "yield"}
           THEN /\ pc' = "raised"
                /\ error' = what
                /\ UNCHANGED <<yielded, images>>
           ELSE /\ pc' = IF tags_todo' = {} THEN "names" ELSE "tags"
                /\ error' = error
                /\ IF what = "yield"
                   THEN LET media == MediaTypeOf(fs, name, t) IN
                        /\ yielded' = Append(yielded, <<name, t, media>>)
                        /\ images' = Aggregate(images, name, t, media)
                   ELSE UNCHANGED <<yielded, images>>
    /\ UNCHANGED <<fs, args, out, listed, names_todo, name, emit, fs_events>>

\* find_images is exhausted: for (name, tags) in sorted(images.items()).
FindImagesEnd ==
    /\ pc = "names"
    /\ names_todo = {}
    /\ pending' = SortedItems(images)
    /\ pc' = IF pending' = <<>> THEN "done" ELSE "image"
    /\ UNCHANGED <<fs, args, out, error, scan, tag_items, seen_digests,
                   hexdigest, digest_read, fs_events>>

(***************************************************************************)
(* compute_digest and the per-image loop of create_config                  *)
(***************************************************************************)
\* open(filename, 'rb') succeeds
CanRead(tree, n, t) == tree.sub[<<n, t>>].kind = "dir" /\ tree.sub[<<n, t>>].manifest # "none"

\* compute_digest(os.path.join(root, name, tag, MANIFEST_JSON))
ComputeDigest(tree, n, t) == Sha256Hex(tree.sub[<<n, t>>].manifest)

\* The tag list route of the next image, and seen_digests = set().
EmitTagList ==
    /\ pc = "image"
    /\ LET n == Head(pending)[1]
           tags == Head(pending)[2] IN
        /\ out' = Append(out, TagListFragment(name_prefix, n, TagListTags(tags)))
        /\ seen_digests' = {}
        /\ tag_items' = SortedItems(tags)
    /\ pc' = "manifest"
    /\ UNCHANGED <<fs, args, error, scan, pending, hexdigest, digest_read,
                   fs_events>>

\* Mutant of EmitManifestByTag: an error of open() is swallowed and the tag
\* passed over.
EmitManifestByTagSkipping ==
    /\ pc = "manifest"
    /\ LET n == Head(pending)[1]
           t == Head(tag_items)[1]
           media == Head(tag_items)[2] IN
        IF CanRead(fs, n, t)
        THEN /\ hexdigest' = ComputeDigest(fs, n, t)
             /\ digest_read' = [digest_read EXCEPT ![<<n, t>>] = fs.sub[<<n, t>>].manifest]
             /\ out' = Append(out, ManifestByTagFragment(name_prefix, n, t, media, hexdigest'))
             /\ pc' = "digest"
             /\ tag_items' = tag_items
        ELSE /\ tag_items' = Tail(tag_items)
             /\ pc' = IF tag_items' = <<>> THEN "blobs" ELSE "manifest"
             /\ UNCHANGED <<hexdigest, digest_read, out>>
    /\ UNCHANGED <<fs, args, error, scan, pending, seen_digests, fs_events>>

\* compute_digest of the next tag's manifest, then its manifest-by-tag
\* route; an error of open() ends the run.
EmitManifestByTag ==
    /\ pc = "manifest"
    /\ LET n == Head(pending)[1]
           t == Head(tag_items)[1]
           media == Head(tag_items)[2] IN
        IF CanRead(fs, n, t)
        THEN /\ hexdigest' = ComputeDigest(fs, n, t)
             /\ digest_read' = [digest_read EXCEPT ![<<n, t>>] = fs.sub[<<n, t>>].manifest]
             /\ out' = Append(out, ManifestByTagFragment(name_prefix, n, t, media, hexdigest'))
             /\ pc' = "digest"
             /\ error' = error
        ELSE /\ pc' = "raised"
             /\ error' = "OSError"
             /\ UNCHANGED <<hexdigest, digest_read, out>>
    /\ UNCHANGED <<fs, args, scan, pending, tag_items, seen_digests, fs_events>>

\* Mutant of FirstWithDigest: seen_digests is not consulted.
FirstWithDigestAlways(seen, digest) == TRUE

\* if hexdigest not in seen_digests
FirstWithDigest(seen, digest) == digest \notin seen

\* The manifest-by-digest route of the tag, or the comment when the digest
\* was seen; seen_digests.add(hexdigest).
EmitManifestByDigest ==
    /\ pc = "digest"
    /\ LET n == Head(pending)[1]
           t == Head(tag_items)[1]
           media == Head(tag_items)[2] IN
        out' = Append(out,
                      IF FirstWithDigest(seen_digests, hexdigest)
                      THEN ManifestByDigestFragment(name_prefix, n, t, media, hexdigest)
                      ELSE AlreadyServedFragment(n, t))
    /\ seen_digests' = seen_digests \cup {hexdigest}
    /\ tag_items' = Tail(tag_items)
    /\ pc' = IF tag_items' = <<>> THEN "blobs" ELSE "manifest"
    /\ UNCHANGED <<fs, args, error, scan, pending, hexdigest, digest_read,
                   fs_events>>

\* The blob route of the image; then the next image, or the end.
EmitBlobs ==
    /\ pc = "blobs"
    /\ LET n == Head(pending)[1]
           tags == Head(pending)[2] IN
        out' = Append(out, BlobsFragment(name_prefix, n, BlobProbeTags(tags)))
    /\ pending' = Tail(pending)
    /\ pc' = IF pending' = <<>> THEN "done" ELSE "image"
    /\ UNCHANGED <<fs, args, error, scan, tag_items, seen_digests, hexdigest,
                   digest_read, fs_events>>

Next ==
    \/ CreateConfigStart
    \/ FindImagesName
    \/ FindImagesTag
    \/ FindImagesEnd
    \/ EmitTagList
    \/ EmitManifestByTag
    \/ EmitManifestByDigest
    \/ EmitBlobs

\* A run of create_config over a tree nothing else touches.
Spec == Init /\ [][Next]_vars

(***************************************************************************)
(* The tree changing under a run: the manifest.json of an image that       *)
(* find_images has yielded is removed, or written again with other bytes,  *)
(* by another process.                                                     *)
(***************************************************************************)
Running == pc \notin {"done", "raised"}

Discovered(s) == \E i \in 1..Len(yielded) : <<yielded[i][1], yielded[i][2]>> = s

FsVanish ==
    /\ Running
    /\ fs_events < MaxFsEvents
    /\ \E s \in Slots :
        /\ Discovered(s)
        /\ fs.sub[s].kind = "dir" /\ fs.sub[s].manifest # "none"
        /\ fs' = [fs EXCEPT !.sub[s] = DirEntry("none")]
    /\ fs_events' = fs_events + 1
    /\ UNCHANGED <<args, pc, out, error, scan, emit>>

FsRewrite ==
    /\ Running
    /\ fs_events < MaxFsEvents
    /\ \E s \in Slots, m \in {"docker", "oci"} :
        /\ Discovered(s)
        /\ fs.sub[s].kind = "dir" /\ fs.sub[s].manifest \notin {"none", m}
        /\ fs' = [fs EXCEPT !.sub[s] = DirEntry(m)]
    /\ fs_events' = fs_events + 1
    /\ UNCHANGED <<args, pc, out, error, scan, emit>>

InitRace == InitWith(Trees({"docker", "oci"}), {FOO_PREFIX})

NextRace == Next \/ FsVanish \/ FsRewrite

\* A run of create_config over a tree of valid images that changes under it.
SpecRace == InitRace /\ [][NextRace]_vars

(***************************************************************************)
(* What the tree holds, read off the tree and not off the run.             *)
(***************************************************************************)
\* root/name/tag is a valid image: directories, a manifest.json that is a
\* non-empty JSON object with schemaVersion 2 and a supported mediaType.
Eligible(tree, n, t) ==
    /\ <<n, t>> \in Slots
    /\ tree.top[n] = "dir"
    /\ tree.sub[<<n, t>>].kind = "dir"
    /\ tree.sub[<<n, t>>].manifest \in {"docker", "oci"}

EligibleTags(tree, n) == {t \in Tags : Eligible(tree, n, t)}

EligibleNames(tree) == {n \in Names : EligibleTags(tree, n) # {}}

\* root/name/tag holds a manifest that is JSON and truthy but no object.
NotAnObject(tree, n, t) ==
    /\ <<n, t>> \in Slots
    /\ tree.top[n] = "dir"
    /\ tree.sub[<<n, t>>] = DirEntry("array")

\* root/name/tag holds a manifest that is not UTF-8 text.
NotText(tree, n, t) ==
    /\ <<n, t>> \in Slots
    /\ tree.top[n] = "dir"
    /\ tree.sub[<<n, t>>] = DirEntry("notutf8")

DigestInTree(tree, n, t) == Sha256Hex(tree.sub[<<n, t>>].manifest)

\* The strings of S in increasing lexicographic order.
RECURSIVE Ascending(_)
Ascending(S) ==
    IF S = {} THEN <<>>
    ELSE LET least == CHOOSE x \in S : \A y \in S \ {x} : StrLess(x, y)
         IN <<least>> \o Ascending(S \ {least})

Indices(kind) == {i \in 1..Len(out) : out[i].kind = kind}

IndicesOf(kind, n) == {i \in Indices(kind) : out[i].name = n}

IndicesAt(kind, n, t) == {i \in IndicesOf(kind, n) : out[i].tag = t}

ScanOver == pc \notin {"start", "names", "tags"}

Completed == pc = "done" /\ ~only_constants

(***************************************************************************)
(* C1: when find_images has ended, it has yielded (name, tag, mediaType)   *)
(* exactly once for every valid image root/name/tag of the tree, with the  *)
(* mediaType of its manifest, and nothing for any other entry.             *)
(***************************************************************************)
C1_DiscoveryExact ==
    (listed /\ ScanOver) =>
        /\ \A s \in Slots :
            Cardinality({i \in 1..Len(yielded) :
                            <<yielded[i][1], yielded[i][2]>> = s})
                = IF Eligible(fs, s[1], s[2]) THEN 1 ELSE 0
        /\ \A i \in 1..Len(yielded) :
            yielded[i][3] = MediaTypeOf(fs, yielded[i][1], yielded[i][2])

(***************************************************************************)
(* C3: no entry of the tree is fatal: find_images never raises, and when   *)
(* it has ended every valid image of the tree was yielded.                 *)
(***************************************************************************)
C3_NeverFatal ==
    /\ pc # "raised"
    /\ (listed /\ ScanOver) =>
        \A s \in Slots :
            Eligible(fs, s[1], s[2]) =>
                \E i \in 1..Len(yielded) : <<yielded[i][1], yielded[i][2]>> = s

(***************************************************************************)
(* C2: in a completed run, every image has exactly one manifest-by-digest  *)
(* route per distinct digest of its tags' manifests, at the path           *)
(* /v2/{prefix}{name}/manifests/sha256:{digest}, and exactly one           *)
(* manifest-by-tag route per tag; another image with the same digest has   *)
(* its own digest route.                                                   *)
(***************************************************************************)
C2_OneDigestRoutePerDigest ==
    Completed =>
        \A n \in Names :
            /\ \A t \in EligibleTags(fs, n) :
                /\ Cardinality(IndicesAt("manifest_by_tag", n, t)) = 1
                /\ Cardinality({i \in IndicesOf("manifest_by_digest", n) :
                        /\ out[i].digest = DigestInTree(fs, n, t)
                        /\ out[i].path = ImagePath(name_prefix, n) \o MANIFESTS
                                          \o SHA256_PREFIX \o DigestInTree(fs, n, t)})
                    = 1
            /\ Cardinality(IndicesOf("manifest_by_tag", n))
                = Cardinality(EligibleTags(fs, n))
            /\ Cardinality(IndicesOf("manifest_by_digest", n))
                = Cardinality({DigestInTree(fs, n, t) : t \in EligibleTags(fs, n)})

\* Two tags of app share a digest that a tag of lib has too.
C2_Witness ==
    /\ Completed
    /\ Cardinality(EligibleTags(fs, APP)) = 2
    /\ Cardinality({DigestInTree(fs, APP, t) : t \in EligibleTags(fs, APP)}) = 1
    /\ \E t \in EligibleTags(fs, APP), u \in EligibleTags(fs, LIB) :
        DigestInTree(fs, APP, t) = DigestInTree(fs, LIB, u)
    /\ Cardinality(Indices("manifest_by_digest")) = 2

(***************************************************************************)
(* The output of a run over an unchanged tree, as a function of the tree   *)
(* and the arguments alone.                                                *)
(***************************************************************************)
\* Whether an earlier tag of the image, in lexicographic order, has the
\* digest of tag t.
EarlierSameDigest(tree, n, t) ==
    \E u \in EligibleTags(tree, n) :
        StrLess(u, t) /\ DigestInTree(tree, n, u) = DigestInTree(tree, n, t)

ExpectedTag(tree, prefix, n, t) ==
    LET media == IF tree.sub[<<n, t>>].manifest = "docker" THEN DOCKER_V2 ELSE OCI_V1
        digest == DigestInTree(tree, n, t)
    IN <<ManifestByTagFragment(prefix, n, t, media, digest),
         IF EarlierSameDigest(tree, n, t)
         THEN AlreadyServedFragment(n, t)
         ELSE ManifestByDigestFragment(prefix, n, t, media, digest)>>

RECURSIVE ExpectedTags(_, _, _, _)
ExpectedTags(tree, prefix, n, tags) ==
    IF tags = <<>> THEN <<>>
    ELSE ExpectedTag(tree, prefix, n, Head(tags))
         \o ExpectedTags(tree, prefix, n, Tail(tags))

ExpectedImage(tree, prefix, n) ==
    LET tags == Ascending(EligibleTags(tree, n))
    IN <<TagListFragment(prefix, n, tags)>>
       \o ExpectedTags(tree, prefix, n, tags)
       \o <<BlobsFragment(prefix, n, tags)>>

RECURSIVE ExpectedImages(_, _, _)
ExpectedImages(tree, prefix, names) ==
    IF names = <<>> THEN <<>>
    ELSE ExpectedImage(tree, prefix, Head(names))
         \o ExpectedImages(tree, prefix, Tail(names))

\* The scan meets a manifest that makes json.load or data.get raise.
ScanRaises(tree) ==
    \E s \in Slots : NotAnObject(tree, s[1], s[2]) \/ NotText(tree, s[1], s[2])

ExpectedOutput(tree, wc, oc, prefix) ==
    (IF wc THEN <<CONSTANTS_FRAGMENT>> ELSE <<>>)
    \o (IF oc \/ ScanRaises(tree) THEN <<>>
        ELSE ExpectedImages(tree, prefix, Ascending(EligibleNames(tree))))

(***************************************************************************)
(* C4: the output of a run that has ended is determined by the tree and    *)
(* the arguments, whatever the order in which os.listdir gave the entries: *)
(* the images in lexicographic order of name, and the tags of an image in  *)
(* lexicographic order.                                                    *)
(***************************************************************************)
C4_Deterministic ==
    pc \in {"done", "raised"} =>
        /\ out = ExpectedOutput(fs, with_constants, only_constants, name_prefix)
        /\ (pc = "raised") = (~only_constants /\ ScanRaises(fs))

\* A completed run whose listing gave both the names and the tags of app in
\* decreasing order.
C4_Witness ==
    /\ Completed
    /\ Len(yielded) = 3
    /\ yielded[1][1] = LIB
    /\ yielded[2][1] = APP /\ yielded[3][1] = APP
    /\ StrLess(yielded[3][2], yielded[2][2])

(***************************************************************************)
(* C5: in a completed run an image name has a tag list route if and only   *)
(* if the tree holds a valid tag for it, and otherwise no fragment at all; *)
(* it has one such route, whose tags are the valid tags of the image, each *)
(* once, in lexicographic order.                                           *)
(***************************************************************************)
C5_TagListIffValidTag ==
    Completed =>
        \A n \in Names :
            IF EligibleTags(fs, n) = {}
            THEN \A i \in 1..Len(out) : out[i].name # n
            ELSE /\ Cardinality(IndicesOf("tag_list", n)) = 1
                 /\ \A i \in IndicesOf("tag_list", n) :
                     /\ out[i].path = V2_ROOT \o LStrip(name_prefix) \o n \o TAGS_LIST
                     /\ {out[i].tags[k] : k \in 1..Len(out[i].tags)} = EligibleTags(fs, n)
                     /\ \A k \in 1..(Len(out[i].tags) - 1) :
                         StrLess(out[i].tags[k], out[i].tags[k + 1])

\* lib holds only a tag directory without manifest.json, app has two tags
\* that the listing gave in decreasing order.
C5_Witness ==
    /\ Completed
    /\ fs.top[LIB] = "dir"
    /\ fs.sub[<<LIB, TAG_V1>>] = DirEntry("none")
    /\ Len(yielded) = 2
    /\ StrLess(yielded[2][2], yielded[1][2])
    /\ Cardinality(Indices("tag_list")) = 1

(***************************************************************************)
(* C6: in a completed run every image has exactly one blob route, whose    *)
(* probe list is the valid tags of that image, each once, in lexicographic *)
(* order: the order of the tags of its tag list route and of its           *)
(* manifest-by-tag routes.                                                 *)
(***************************************************************************)
C6_BlobProbeOrder ==
    Completed =>
        /\ \A n \in Names :
            Cardinality(IndicesOf("blobs", n))
                = IF EligibleTags(fs, n) = {} THEN 0 ELSE 1
        /\ \A i \in Indices("blobs") :
            LET n == out[i].name
                probes == out[i].tags IN
            /\ {probes[k] : k \in 1..Len(probes)} = EligibleTags(fs, n)
            /\ Len(probes) = Cardinality(EligibleTags(fs, n))
            /\ \A k \in 1..(Len(probes) - 1) : StrLess(probes[k], probes[k + 1])
            /\ \A j \in IndicesOf("tag_list", n) : out[j].tags = probes
            /\ \A k, l \in 1..Len(probes) :
                k < l =>
                    \A a \in IndicesAt("manifest_by_tag", n, probes[k]),
                       b \in IndicesAt("manifest_by_tag", n, probes[l]) : a < b

\* app has three tags, listed with the greatest first.
C6_Witness ==
    /\ Completed
    /\ \E i \in Indices("blobs") : out[i].name = APP /\ Len(out[i].tags) = 3
    /\ yielded[1][1] = APP /\ yielded[1][2] = TAG_V2

(***************************************************************************)
(* C7: for all four values of the two flags: once the run has started, the *)
(* constants fragment is in the output once, as its first fragment, when   *)
(* with_constants is true and never when it is false; under only_constants *)
(* the root is never listed and no per-image fragment is yielded; and a    *)
(* completed run without only_constants has yielded every per-image        *)
(* fragment, with_constants or not.                                        *)
(***************************************************************************)
PerImageFragments == {i \in 1..Len(out) : out[i].kind # "constants"}

C7_Flags ==
    /\ pc # "start" =>
        /\ Indices("constants") = IF with_constants THEN {1} ELSE {}
    /\ pc = "start" => out = <<>> /\ ~listed
    /\ only_constants => ~listed /\ PerImageFragments = {}
    /\ Completed =>
        /\ listed
        /\ \A n \in EligibleNames(fs) :
            /\ Cardinality(IndicesOf("tag_list", n)) = 1
            /\ Cardinality(IndicesOf("blobs", n)) = 1
            /\ \A t \in EligibleTags(fs, n) :
                /\ Cardinality(IndicesAt("manifest_by_tag", n, t)) = 1
                /\ Cardinality(IndicesAt("manifest_by_digest", n, t))
                    + Cardinality(IndicesAt("comment", n, t)) = 1

\* A completed run without the constants that has yielded the routes of two
\* images.
C7_Witness ==
    /\ Completed
    /\ ~with_constants
    /\ Cardinality(Indices("tag_list")) = 2

(***************************************************************************)
(* C8: when the manifest of a discovered tag cannot be read by             *)
(* compute_digest, the run ends with the error and has yielded no manifest *)
(* route for that tag; a run that completes has a manifest-by-tag route    *)
(* for every tag find_images yielded; and every manifest route yielded     *)
(* carries the digest of the bytes compute_digest read for the tag         *)
(* directory it aliases, a digest route in its path too.                   *)
(***************************************************************************)
ManifestRoutes == Indices("manifest_by_tag") \cup Indices("manifest_by_digest")

C8_NoRouteWithoutDigest ==
    /\ \A i \in ManifestRoutes :
        LET s == <<out[i].name, out[i].tag>> IN
        /\ digest_read[s] # "none"
        /\ out[i].digest = Sha256Hex(digest_read[s])
        /\ out[i].kind = "manifest_by_digest" =>
            out[i].path = ImagePath(name_prefix, out[i].name) \o MANIFESTS
                           \o SHA256_PREFIX \o Sha256Hex(digest_read[s])
    /\ (pc = "raised" /\ error = "OSError") =>
        LET n == Head(pending)[1]
            t == Head(tag_items)[1] IN
        /\ ~HasManifest(fs, n, t)
        /\ \A i \in ManifestRoutes : <<out[i].name, out[i].tag>> # <<n, t>>
    /\ pc = "done" =>
        \A k \in 1..Len(yielded) :
            IndicesAt("manifest_by_tag", yielded[k][1], yielded[k][2]) # {}

\* The manifest of the second tag of an image vanished after the first
\* tag's routes were yielded, and the run ended with the error.
C8_Witness ==
    /\ pc = "raised"
    /\ error = "OSError"
    /\ Cardinality(ManifestRoutes) = 2
    /\ \E k \in 1..Len(yielded) :
        /\ <<yielded[k][1], yielded[k][2]>> = <<Head(pending)[1], Head(tag_items)[1]>>
        /\ fs.sub[<<yielded[k][1], yielded[k][2]>>] = DirEntry("none")

(***************************************************************************)
(* C9: the manifest-by-tag routes of an image come in lexicographic order  *)
(* of tag; each is followed at once by the manifest-by-digest route of the *)
(* same tag directory, media type and digest when no earlier tag of the    *)
(* image has that digest, and by the comment for that tag otherwise; and   *)
(* a digest route or comment comes nowhere else.                           *)
(***************************************************************************)
C9_FirstTagServesDigest ==
    /\ \A i \in Indices("manifest_by_tag") :
        IF i = Len(out) THEN pc = "digest"
        ELSE LET r == out[i]
                 next == out[i + 1] IN
             IF EarlierSameDigest(fs, r.name, r.tag)
             THEN next = AlreadyServedFragment(r.name, r.tag)
             ELSE next = ManifestByDigestFragment(name_prefix, r.name, r.tag,
                                                  r.media, r.digest)
    /\ \A i \in Indices("manifest_by_digest") \cup Indices("comment") :
        /\ i > 1
        /\ out[i - 1].kind = "manifest_by_tag"
    /\ \A i, j \in Indices("manifest_by_tag") :
        (i < j /\ out[i].name = out[j].name) => StrLess(out[i].tag, out[j].tag)
    /\ \A i \in Indices("manifest_by_tag") :
        /\ out[i].media = MediaTypeOf(fs, out[i].name, out[i].tag)
        /\ out[i].digest = DigestInTree(fs, out[i].name, out[i].tag)

\* Three tags of one image, the first and the last of one digest and the
\* middle one of another, listed last to first: routes, routes, route and
\* comment.
C9_Witness ==
    /\ Completed
    /\ Len(yielded) = 3
    /\ yielded[1][2] = TAG_V2 /\ yielded[3][2] = TAG_SHA
    /\ Cardinality(Indices("manifest_by_digest")) = 2
    /\ \E i \in Indices("comment") : out[i].tag = TAG_V2

(***************************************************************************)
(* C10: no two exact-match locations of the output have the same path.     *)
(***************************************************************************)
\* The paths of the `location = ...` rules of a fragment.
ExactPaths(f) ==
    CASE f.kind = "constants" -> {V2_BARE, V2_ROOT}
      [] f.kind \in {"tag_list", "manifest_by_tag", "manifest_by_digest"} -> {f.path}
      [] OTHER -> {}

C10_NoDuplicateLocation ==
    \A i, j \in 1..Len(out) :
        i < j => ExactPaths(out[i]) \cap ExactPaths(out[j]) = {}

=============================================================================
